---- MODULE Spec2Model ----
(***************************************************************************)
(* Model of app.py, a Streamlit vault: Login/Register, Encrypt & Save,     *)
(* Decrypt and Logout handlers working on st.session_state and on the     *)
(* JSON file DATA_FILE.                                                    *)
(*                                                                         *)
(* st.session_state belongs to one browser session: every variable that   *)
(* app.py keeps in it is a function of the session.  DATA_FILE is the only *)
(* state the sessions share.  A handler runs from the button click to its  *)
(* return or st.rerun() as one step.                                       *)
(***************************************************************************)
EXTENDS Integers, Sequences, FiniteSets, TLC

(* ------------------------------ bounds --------------------------------- *)

\* Entries one session's store holds at most, over all its accounts.
MaxEntries == 2

\* Wrong-password attempts one session makes at most.
MaxFailed == 4

\* Browser sessions (slots of st.session_state).
Sessions == {"s1", "s2"}

\* The session of the single-session specification.
MainSession == "s1"

\* Values typed into the text inputs; "" is an input left empty.
Usernames == {"", "alice", "bob"}
Passwords == {"", "pw1", "pw2"}
Passkeys == {"", "k1", "k2"}
Plaintexts == {"", "hello"}

\* Values os.urandom(16) returns, and the IVs Fernet draws.
SaltBytes == {"r1", "r2"}
FernetIVs == {"iv1"}

(* ----------------------------- constants ------------------------------- *)

MAX_FAILED_ATTEMPTS == 3

(* ------------------------------- state --------------------------------- *)

VARIABLES
    file,             \* DATA_FILE on disk
    data_store,       \* st.session_state.data_store, per session
    failed_attempts,  \* st.session_state.failed_attempts, per session
    authorized,       \* st.session_state.authorized, per session
    current_user,     \* st.session_state.current_user, per session
    out               \* what the last handler run displayed

vars == <<file, data_store, failed_attempts, authorized, current_user, out>>

(* --------------------------- security functions ------------------------ *)

\* urlsafe_b64encode(b).decode() and urlsafe_b64decode(s): bytes <-> text.
urlsafe_b64encode(bytes) == [b64 |-> bytes]
urlsafe_b64decode(text) == text.b64

\* generate_salt(): the values os.urandom(16) may return.
generate_salt == SaltBytes

\* pbkdf2_hmac('sha256', password, salt, PBKDF2_ITERATIONS): deterministic,
\* and taken to be collision free on the inputs of the model.
pbkdf2_hmac(password, salt) == [pbkdf2 |-> <<password, salt>>]

derive_key(password, salt) == urlsafe_b64encode(pbkdf2_hmac(password, salt))

\* Fernet(key).encrypt(data): a token authenticated under key, with the IV
\* Fernet drew.
fernet_encrypt(key, iv, data) == [fernet_key |-> key, iv |-> iv, plaintext |-> data]

\* Decryption that hands back the token's leading bytes, not the message.
fernet_decrypt_leading_bytes(key, token) == token.iv

\* A cipher that does not authenticate: every key is accepted.
fernet_verifies_any_key(key, token) == TRUE

\* Fernet(key).decrypt(token): the plaintext, or InvalidToken raised when
\* the token's HMAC does not verify under key.
fernet_verifies(key, token) == token.fernet_key = key
fernet_decrypt(key, token) == token.plaintext

\* All tokens the model's inputs can produce, and the empty text area.
EmptyText == [empty |-> TRUE]
FernetTokens ==
    { fernet_encrypt(derive_key(k, s), iv, d) :
        k \in Passkeys \ {""}, s \in SaltBytes, iv \in FernetIVs,
        d \in Plaintexts \ {""} }

\* Text that differs from a token Encrypt & Save can produce in one
\* character of its IV: Fernet never produced it.
TamperedTokens ==
    { [fernet_encrypt(derive_key("k1", "r1"), "iv1", "hello") EXCEPT !.iv = "iv1x"] }

(* ------------------------------ data handling -------------------------- *)

\* A dict without keys.
EmptyDict == [u \in {} |-> 0]

\* users = {username: account}: the dict replaced, not updated.
dict_set_replaces(users, username, account) ==
    [u \in {username} |-> account]

\* users[username] = account
dict_set(users, username, account) ==
    [u \in (DOMAIN users) \cup {username} |->
        IF u = username THEN account ELSE users[u]]

\* json.dump(data, f): the members of the top-level object.
json_dump(data) == { <<u, data[u]>> : u \in DOMAIN data }

\* json.load(f): the dict of the object's members.
json_load(doc) ==
    [u \in { m[1] : m \in doc } |-> (CHOOSE m \in doc : m[1] = u)[2]]

MissingFile == [exists |-> FALSE, valid |-> FALSE, doc |-> {}]
CorruptFile == [exists |-> TRUE, valid |-> FALSE, doc |-> {}]

\* load_data(): {} when DATA_FILE is missing or json.load raises
\* JSONDecodeError.
load_data(f) ==
    IF f.exists
    THEN IF f.valid THEN json_load(f.doc) ELSE EmptyDict
    ELSE EmptyDict

\* save_data(data): DATA_FILE overwritten with the whole document.
save_data(data) == [exists |-> TRUE, valid |-> TRUE, doc |-> json_dump(data)]

(* ------------------------------ displayed ------------------------------ *)

\* remaining, decrypted, total and raised hold at most one value: what
\* st.error printed as "{remaining} attempts left", what
\* st.text_area("Decrypted Data") showed, what the dashboard card showed as
\* "Total Secrets", and the exception that left the script run, which
\* Streamlit prints under whatever the run had already shown.
Shown(s, op, msg) ==
    [session |-> s, op |-> op, msg |-> msg, remaining |-> <<>>, decrypted |-> <<>>,
     total |-> <<>>, raised |-> <<>>]

(* -------------------------------- Init --------------------------------- *)

\* Lines 103-113: what a session's first script run leaves in
\* st.session_state.
Init ==
    /\ file \in {MissingFile, CorruptFile}
    /\ data_store = [s \in Sessions |-> load_data(file)]
    /\ failed_attempts = [s \in Sessions |-> 0]
    /\ authorized = [s \in Sessions |-> FALSE]
    /\ current_user = [s \in Sessions |-> ""]
    /\ out = Shown(MainSession, "start", "")

(* --------------------------- Login/Register ---------------------------- *)

\* Line 148 with derive_key's arguments swapped.
new_account_swapped(password, password_salt) ==
    [password_salt |-> urlsafe_b64encode(password_salt),
     password_hash |-> derive_key(password_salt, password),
     entries |-> <<>>]

\* Lines 146-150: the account a first login creates.
new_account(password, password_salt) ==
    [password_salt |-> urlsafe_b64encode(password_salt),
     password_hash |-> derive_key(password, password_salt),
     entries |-> <<>>]

\* Line 155 with the comparison inverted.
password_matches_inverted(users, username, password) ==
    LET stored_salt == urlsafe_b64decode(users[username].password_salt)
        attempt_hash == derive_key(password, stored_salt)
    IN  attempt_hash # users[username].password_hash

\* Lines 153-155: attempt_hash == users[username]["password_hash"].
password_matches(users, username, password) ==
    LET stored_salt == urlsafe_b64decode(users[username].password_salt)
        attempt_hash == derive_key(password, stored_salt)
    IN  attempt_hash = users[username].password_hash

\* Line 139 with "and" for "or".
fields_missing_both(username, password) == username = "" /\ password = ""

\* Line 139: not username or not password.
fields_missing(username, password) == username = "" \/ password = ""

\* Lines 140-141: a field left empty.
login_missing_fields(s) ==
    /\ out' = Shown(s, "login", "Please fill all fields")
    /\ UNCHANGED <<file, data_store, failed_attempts, authorized, current_user>>

\* Lines 161-164 with the counter reset on success.
login_success_resets(s, username, users, msg) ==
    /\ data_store' = [data_store EXCEPT ![s] = users]
    /\ current_user' = [current_user EXCEPT ![s] = username]
    /\ authorized' = [authorized EXCEPT ![s] = TRUE]
    /\ file' = save_data(users)
    /\ out' = Shown(s, "login", msg)
    /\ failed_attempts' = [failed_attempts EXCEPT ![s] = 0]

\* Lines 161-164 saving the store as it was before the call.
login_success_stale_save(s, username, users, msg) ==
    /\ data_store' = [data_store EXCEPT ![s] = users]
    /\ current_user' = [current_user EXCEPT ![s] = username]
    /\ authorized' = [authorized EXCEPT ![s] = TRUE]
    /\ file' = save_data(data_store[s])
    /\ out' = Shown(s, "login", msg)
    /\ UNCHANGED failed_attempts

\* Lines 161-164: the session is set, the store saved, the script rerun.
login_success(s, username, users, msg) ==
    /\ data_store' = [data_store EXCEPT ![s] = users]
    /\ current_user' = [current_user EXCEPT ![s] = username]
    /\ authorized' = [authorized EXCEPT ![s] = TRUE]
    /\ file' = save_data(users)
    /\ out' = Shown(s, "login", msg)
    /\ UNCHANGED failed_attempts

\* Lines 155-164 without the return of line 159: the failed attempt falls
\* through to the session being set.
login_failure_no_return(s, username) ==
    LET attempts == failed_attempts[s] + 1
        remaining == MAX_FAILED_ATTEMPTS - attempts
    IN  /\ failed_attempts' = [failed_attempts EXCEPT ![s] = attempts]
        /\ out' = [Shown(s, "login", "Invalid credentials") EXCEPT
                      !.remaining = <<remaining>>]
        /\ current_user' = [current_user EXCEPT ![s] = username]
        /\ authorized' = [authorized EXCEPT ![s] = TRUE]
        /\ file' = save_data(data_store[s])
        /\ UNCHANGED data_store

\* Lines 156-157 in the other order: remaining computed before the increment.
login_failure_stale_remaining(s, username) ==
    LET attempts == failed_attempts[s] + 1
        remaining == MAX_FAILED_ATTEMPTS - failed_attempts[s]
    IN  /\ failed_attempts' = [failed_attempts EXCEPT ![s] = attempts]
        /\ out' = [Shown(s, "login", "Invalid credentials") EXCEPT
                      !.remaining = <<remaining>>]
        /\ UNCHANGED <<file, data_store, authorized, current_user>>

\* Lines 155-159: the attempt on username is counted and reported.
login_failure(s, username) ==
    LET attempts == failed_attempts[s] + 1
        remaining == MAX_FAILED_ATTEMPTS - attempts
    IN  /\ failed_attempts' = [failed_attempts EXCEPT ![s] = attempts]
        /\ out' = [Shown(s, "login", "Invalid credentials") EXCEPT
                      !.remaining = <<remaining>>]
        /\ UNCHANGED <<file, data_store, authorized, current_user>>

\* login_page(), the "Login / Register" button clicked; app flow shows the
\* page only while the session is not authorized (lines 233, 254-255).
login_page(s, username, password, password_salt) ==
    /\ ~authorized[s]
    /\ LET users == data_store[s]
       IN  IF fields_missing(username, password)
           THEN login_missing_fields(s)
           ELSE IF username \notin DOMAIN users
           THEN login_success(s, username,
                    dict_set(users, username, new_account(password, password_salt)),
                    "Account created! Logged in.")
           ELSE IF ~password_matches(users, username, password)
           THEN /\ failed_attempts[s] < MaxFailed
                /\ login_failure(s, username)
           ELSE login_success(s, username, users, "")

(* ------------------------------- Logout -------------------------------- *)

\* Lines 247-250 without line 249.
logout_keeps_user(s) ==
    /\ authorized[s]
    /\ authorized' = [authorized EXCEPT ![s] = FALSE]
    /\ out' = Shown(s, "logout", "")
    /\ UNCHANGED <<file, data_store, failed_attempts, current_user>>

\* Lines 247-250.
logout(s) ==
    /\ authorized[s]
    /\ authorized' = [authorized EXCEPT ![s] = FALSE]
    /\ current_user' = [current_user EXCEPT ![s] = ""]
    /\ out' = Shown(s, "logout", "")
    /\ UNCHANGED <<file, data_store, failed_attempts>>

(* ------------------------------ Dashboard ------------------------------ *)

\* dashboard_page(), drawn by the app flow for an authorized session
\* (lines 233, 252-253): the card shows len(entries) of the current user.
dashboard_page(s) ==
    /\ authorized[s]
    /\ current_user[s] \in DOMAIN data_store[s]
    /\ out' = [Shown(s, "dashboard", "Total Secrets") EXCEPT
                  !.total = <<Len(data_store[s][current_user[s]].entries)>>]
    /\ UNCHANGED <<file, data_store, failed_attempts, authorized, current_user>>

(* ---------------------------- Encrypt & Save --------------------------- *)

RECURSIVE CountEntries(_, _)
CountEntries(users, names) ==
    IF names = {} THEN 0
    ELSE LET u == CHOOSE n \in names : TRUE
         IN  Len(users[u].entries) + CountEntries(users, names \ {u})

TotalEntries(users) == CountEntries(users, DOMAIN users)

\* Line 191 with entries.insert(0, new_entry).
append_entry_in_front(users, user, new_entry) ==
    [users EXCEPT ![user].entries = <<new_entry>> \o @]

\* Lines 186-191: entries.append(new_entry) on the current user's account.
append_entry(users, user, new_entry) ==
    [users EXCEPT ![user].entries = Append(@, new_entry)]

\* store_data_page(), the "Encrypt & Save" button clicked.
store_data_page(s, data, passkey, entry_salt, iv) ==
    /\ authorized[s]
    /\ IF data = "" \/ passkey = ""
       THEN /\ out' = Shown(s, "store", "All fields required")
            /\ UNCHANGED <<file, data_store, failed_attempts, authorized, current_user>>
       ELSE LET key == derive_key(passkey, entry_salt)
                encrypted_data == fernet_encrypt(key, iv, data)
                new_entry == [encrypted_data |-> encrypted_data,
                              entry_salt |-> urlsafe_b64encode(entry_salt)]
                users == append_entry(data_store[s], current_user[s], new_entry)
            IN  /\ current_user[s] \in DOMAIN data_store[s]
                /\ TotalEntries(data_store[s]) < MaxEntries
                /\ data_store' = [data_store EXCEPT ![s] = users]
                /\ file' = save_data(users)
                /\ out' = Shown(s, "store", "Data encrypted and saved!")
                /\ UNCHANGED <<failed_attempts, authorized, current_user>>

(* -------------------------------- Decrypt ------------------------------ *)

\* Line 213 comparing the texts only in part (the IV is skipped).
find_entry_compares_part(entries, encrypted_input) ==
    LET same(a, b) == /\ DOMAIN a = DOMAIN b
                      /\ "fernet_key" \in DOMAIN a
                      /\ a.fernet_key = b.fernet_key
                      /\ a.plaintext = b.plaintext
        hits == { i \in 1..Len(entries) : same(entries[i].encrypted_data, encrypted_input) }
    IN  IF hits = {} THEN 0 ELSE CHOOSE i \in hits : \A j \in hits : i <= j

\* Line 213: next((e for e in entries if e["encrypted_data"] == input), None),
\* as the index of the first match, 0 for None.
find_entry(entries, encrypted_input) ==
    LET hits == { i \in 1..Len(entries) : entries[i].encrypted_data = encrypted_input }
    IN  IF hits = {} THEN 0 ELSE CHOOSE i \in hits : \A j \in hits : i <= j

\* retrieve_data_page(), the "Decrypt" button clicked.
retrieve_data_page(s, encrypted_input, passkey) ==
    /\ authorized[s]
    /\ current_user[s] \in DOMAIN data_store[s]
    /\ IF encrypted_input = EmptyText \/ passkey = ""
       THEN out' = Shown(s, "retrieve", "All fields required")
       ELSE LET entries == data_store[s][current_user[s]].entries
                i == find_entry(entries, encrypted_input)
            IN  IF i = 0
                THEN out' = Shown(s, "retrieve", "Data not found")
                ELSE LET entry_salt == urlsafe_b64decode(entries[i].entry_salt)
                         key == derive_key(passkey, entry_salt)
                     IN  IF fernet_verifies(key, encrypted_input)
                         THEN out' = [Shown(s, "retrieve", "Decrypted successfully!")
                                        EXCEPT !.decrypted =
                                            <<fernet_decrypt(key, encrypted_input)>>]
                         ELSE out' = Shown(s, "retrieve",
                                           "Invalid passkey or corrupted data")
    /\ UNCHANGED <<file, data_store, failed_attempts, authorized, current_user>>

(* ------------------------------ sessions ------------------------------- *)

\* A browser opens (or reloads) the app: lines 103-113 run on an empty
\* st.session_state.
session_start(s) ==
    /\ data_store' = [data_store EXCEPT ![s] = load_data(file)]
    /\ failed_attempts' = [failed_attempts EXCEPT ![s] = 0]
    /\ authorized' = [authorized EXCEPT ![s] = FALSE]
    /\ current_user' = [current_user EXCEPT ![s] = ""]
    /\ out' = Shown(s, "start", "")
    /\ UNCHANGED file

(* --------------------------- specifications ---------------------------- *)

\* What one session can do, its inputs drawn from the sets of in.
SessionNext(s, in) ==
    \/ \E username \in in.usernames, password \in in.passwords,
          password_salt \in generate_salt \cap in.salts :
            login_page(s, username, password, password_salt)
    \/ logout(s)
    \/ dashboard_page(s)
    \/ \E data \in in.plaintexts, passkey \in in.store_passkeys,
          entry_salt \in generate_salt \cap in.salts, iv \in FernetIVs :
            store_data_page(s, data, passkey, entry_salt, iv)
    \/ \E encrypted_input \in in.tokens, passkey \in in.passkeys :
            retrieve_data_page(s, encrypted_input, passkey)
    \/ session_start(s)

AllInputs ==
    [usernames |-> Usernames, passwords |-> Passwords, salts |-> SaltBytes,
     plaintexts |-> Plaintexts, store_passkeys |-> {"", "k1"},
     passkeys |-> Passkeys,
     tokens |-> FernetTokens \cup TamperedTokens \cup {EmptyText}]

\* One interactive session at a time.
Next == SessionNext(MainSession, AllInputs)

Spec == Init /\ [][Next]_vars

\* Inputs of the several-session specification: the main session tries
\* both usernames with both passwords, a second browser tries alice/pw2.
FewInputs ==
    [usernames |-> {"alice", "bob"}, passwords |-> {"pw1", "pw2"}, salts |-> {"r1"},
     plaintexts |-> {"hello"}, store_passkeys |-> {"k1"}, passkeys |-> {"k1"},
     tokens |-> {fernet_encrypt(derive_key("k1", "r1"), "iv1", "hello")}]

SecondSessionInputs ==
    [FewInputs EXCEPT !.usernames = {"alice"}, !.passwords = {"pw2"}]

\* Several browser sessions on the same process and DATA_FILE, each with
\* its own st.session_state.
NextMulti ==
    \E s \in Sessions :
        SessionNext(s, IF s = MainSession THEN FewInputs ELSE SecondSessionInputs)

SpecMulti == Init /\ [][NextMulti]_vars

(* ------------------------ failing file operations --------------------- *)

\* DATA_FILE exists but open() on it is refused (no permission for the
\* process's user): neither its text nor a new text gets through.
UnreadableFile == [exists |-> TRUE, valid |-> FALSE, doc |-> {}, unreadable |-> TRUE]

\* load_data() left by an exception: open(DATA_FILE, "r") raises
\* PermissionError, which is not among the exceptions line 94 catches.
load_data_raises(f) == "unreadable" \in DOMAIN f

\* st.session_state.data_store when line 104 did not complete: never set.
NotLoaded == [not_loaded |-> TRUE]

Loaded(s) == data_store[s] # NotLoaded

\* save_data(data) left by OSError: open(DATA_FILE, "w") was refused and the
\* file is as it was, or open truncated the file and a write of json.dump
\* failed (disk full), leaving text that does not parse.
save_data_raises(f) == {f, CorruptFile}

\* The process killed inside save_data(data): before open, between the
\* truncation by open and the last write of json.dump, or after the last
\* write.
save_data_killed(f, data) == {f, CorruptFile, save_data(data)}

\* Lines 139-155: the click reaches lines 161-163 (fields filled, and the
\* username new or the password matching).
login_reaches_save(s, username, password) ==
    /\ ~authorized[s]
    /\ ~fields_missing(username, password)
    /\ username \in DOMAIN data_store[s] =>
           password_matches(data_store[s], username, password)

\* Lines 144-150: the store that line 163 passes to save_data.
login_users(s, username, password, password_salt) ==
    IF username \notin DOMAIN data_store[s]
    THEN dict_set(data_store[s], username, new_account(password, password_salt))
    ELSE data_store[s]

\* Lines 144-151: what the run had shown before line 163.
login_shown(s, username) ==
    IF username \notin DOMAIN data_store[s] THEN "Account created! Logged in." ELSE ""

\* login_page() when save_data raises on line 163: lines 144-162 have run,
\* st.rerun() is not reached.
login_page_save_raises(s, username, password, password_salt) ==
    /\ login_reaches_save(s, username, password)
    /\ data_store' = [data_store EXCEPT
                         ![s] = login_users(s, username, password, password_salt)]
    /\ current_user' = [current_user EXCEPT ![s] = username]
    /\ authorized' = [authorized EXCEPT ![s] = TRUE]
    /\ file' \in save_data_raises(file)
    /\ out' = [Shown(s, "login", login_shown(s, username)) EXCEPT
                  !.raised = <<"OSError">>]
    /\ UNCHANGED failed_attempts

\* Lines 177-191: the click reaches line 192.
store_reaches_save(s, data, passkey) ==
    /\ authorized[s]
    /\ data # "" /\ passkey # ""
    /\ current_user[s] \in DOMAIN data_store[s]
    /\ TotalEntries(data_store[s]) < MaxEntries

\* Lines 181-191: the store that line 192 passes to save_data.
store_users(s, data, passkey, entry_salt, iv) ==
    LET key == derive_key(passkey, entry_salt)
        encrypted_data == fernet_encrypt(key, iv, data)
        new_entry == [encrypted_data |-> encrypted_data,
                      entry_salt |-> urlsafe_b64encode(entry_salt)]
    IN  append_entry(data_store[s], current_user[s], new_entry)

\* store_data_page() when save_data raises on line 192: the entry is in
\* the session's store, line 194 is not reached.
store_data_page_save_raises(s, data, passkey, entry_salt, iv) ==
    /\ store_reaches_save(s, data, passkey)
    /\ data_store' = [data_store EXCEPT
                         ![s] = store_users(s, data, passkey, entry_salt, iv)]
    /\ file' \in save_data_raises(file)
    /\ out' = [Shown(s, "store", "") EXCEPT !.raised = <<"OSError">>]
    /\ UNCHANGED <<failed_attempts, authorized, current_user>>

\* The process killed while session s is inside save_data(users): every
\* st.session_state is gone, and each browser's next script run starts
\* from lines 103-113 on the file as the kill left it.
killed_in_save(s, users) ==
    /\ file' \in save_data_killed(file, users)
    /\ data_store' = [t \in Sessions |-> load_data(file')]
    /\ failed_attempts' = [t \in Sessions |-> 0]
    /\ authorized' = [t \in Sessions |-> FALSE]
    /\ current_user' = [t \in Sessions |-> ""]
    /\ out' = Shown(s, "crash", "")

login_page_killed(s, username, password, password_salt) ==
    /\ login_reaches_save(s, username, password)
    /\ killed_in_save(s, login_users(s, username, password, password_salt))

store_data_page_killed(s, data, passkey, entry_salt, iv) ==
    /\ store_reaches_save(s, data, passkey)
    /\ killed_in_save(s, store_users(s, data, passkey, entry_salt, iv))

\* Lines 103-104 on a file open() refuses: the exception leaves the script
\* run before any key of st.session_state is set.
session_start_raises(s) ==
    /\ load_data_raises(file)
    /\ data_store' = [data_store EXCEPT ![s] = NotLoaded]
    /\ failed_attempts' = [failed_attempts EXCEPT ![s] = 0]
    /\ authorized' = [authorized EXCEPT ![s] = FALSE]
    /\ current_user' = [current_user EXCEPT ![s] = ""]
    /\ out' = [Shown(s, "start", "") EXCEPT !.raised = <<"PermissionError">>]
    /\ UNCHANGED file

\* The first script run on a DATA_FILE that may also be unreadable.
InitFaults ==
    /\ file \in {MissingFile, CorruptFile, UnreadableFile}
    /\ data_store = [s \in Sessions |->
                        IF load_data_raises(file) THEN NotLoaded ELSE load_data(file)]
    /\ failed_attempts = [s \in Sessions |-> 0]
    /\ authorized = [s \in Sessions |-> FALSE]
    /\ current_user = [s \in Sessions |-> ""]
    /\ out = IF load_data_raises(file)
             THEN [Shown(MainSession, "start", "") EXCEPT
                      !.raised = <<"PermissionError">>]
             ELSE Shown(MainSession, "start", "")

\* One username, a right and a wrong password, one plaintext and passkey.
FaultInputs == [FewInputs EXCEPT !.usernames = {"alice"}]

\* One session whose file operations may fail or be cut short.
NextFaults ==
    LET s == MainSession
        in == FaultInputs
    IN  \/ /\ Loaded(s)
           /\ \E username \in in.usernames, password \in in.passwords,
                 password_salt \in generate_salt \cap in.salts :
                   \/ login_page(s, username, password, password_salt)
                   \/ login_page_save_raises(s, username, password, password_salt)
                   \/ login_page_killed(s, username, password, password_salt)
        \/ /\ Loaded(s)
           /\ \E data \in in.plaintexts, passkey \in in.store_passkeys,
                 entry_salt \in generate_salt \cap in.salts, iv \in FernetIVs :
                   \/ store_data_page(s, data, passkey, entry_salt, iv)
                   \/ store_data_page_save_raises(s, data, passkey, entry_salt, iv)
                   \/ store_data_page_killed(s, data, passkey, entry_salt, iv)
        \/ /\ Loaded(s)
           /\ \/ logout(s)
              \/ dashboard_page(s)
              \/ \E encrypted_input \in in.tokens, passkey \in in.passkeys :
                    retrieve_data_page(s, encrypted_input, passkey)
        \/ /\ ~load_data_raises(file)
           /\ session_start(s)
        \/ session_start_raises(s)

SpecFaults == InitFaults /\ [][NextFaults]_vars

(* ------------------------------ properties ----------------------------- *)

\* The verifier a stored account expects for password, computed from the
\* stored fields alone.
VerifierOf(account, password) ==
    derive_key(password, urlsafe_b64decode(account.password_salt))

WrongPassword(s, username, password) ==
    /\ username # "" /\ password # ""
    /\ username \in DOMAIN data_store[s]
    /\ VerifierOf(data_store[s][username], password)
           # data_store[s][username].password_hash

RightPassword(s, username, password) ==
    /\ username # "" /\ password # ""
    /\ username \in DOMAIN data_store[s]
    /\ VerifierOf(data_store[s][username], password)
           = data_store[s][username].password_hash

\* A step that is a Login/Register call of session s with these inputs.
LoginStep(s, username, password) ==
    /\ out'.op = "login" /\ out'.session = s
    /\ \E r \in SaltBytes : login_page(s, username, password, r)

\* C1: a Login/Register call for an existing username with a password whose
\* derived verifier differs from the stored one reports "Invalid credentials"
\* and overwrites nothing: every account (salt, hash, entries) is unchanged,
\* DATA_FILE is not written, and the session stays unauthorized with an
\* empty current_user.
C1_WrongPasswordNoOverwrite ==
    [][\A s \in Sessions, u \in Usernames, p \in Passwords :
        (LoginStep(s, u, p) /\ WrongPassword(s, u, p)) =>
            /\ out'.op = "login" /\ out'.msg = "Invalid credentials"
            /\ data_store' = data_store
            /\ file' = file
            /\ authorized'[s] = FALSE
            /\ current_user'[s] = ""]_vars

\* C1 witness: a wrong password was just rejected for an account that exists.
C1_Witness ==
    /\ out.op = "login" /\ out.msg = "Invalid credentials"
    /\ "alice" \in DOMAIN data_store[out.session]
    /\ data_store[out.session]["alice"].password_hash = derive_key("pw1", "r1")
    /\ ~authorized[out.session]

\* C2: a step that establishes a session (authorized becomes true for s, with
\* current_user = u) is a Login/Register call for u that either creates u,
\* absent from the store before, or supplies a password whose derived key
\* under u's stored salt equals u's stored password_hash; and while a session
\* is authorized its current_user does not change.
C2_SessionOnlyByCreateOrMatch ==
    [][\A s \in Sessions :
        /\ (~authorized[s] /\ authorized'[s]) =>
              \E p \in Passwords :
                 /\ LoginStep(s, current_user'[s], p)
                 /\ current_user'[s] # "" /\ p # ""
                 /\ \/ /\ current_user'[s] \notin DOMAIN data_store[s]
                       /\ current_user'[s] \in DOMAIN data_store'[s]
                    \/ RightPassword(s, current_user'[s], p)
        /\ (authorized[s] /\ authorized'[s]) => current_user'[s] = current_user[s]
      ]_vars

\* C2 witness: a session established by the password of an existing account.
C2_Witness ==
    \E s \in Sessions :
        /\ authorized[s] /\ current_user[s] = "alice"
        /\ out = Shown(s, "login", "")

\* C3: once failed_attempts has reached MAX_FAILED_ATTEMPTS, no later
\* Login/Register call of that session establishes a session, whatever the
\* password, and no reported remaining count is below 0.
C3_LockoutAfterMaxAttempts ==
    [][\A s \in Sessions :
        /\ failed_attempts[s] >= MAX_FAILED_ATTEMPTS =>
              ~(~authorized[s] /\ authorized'[s])
        /\ out'.remaining # <<>> => out'.remaining[1] >= 0]_vars

\* C4: every wrong-password attempt on an existing user adds exactly one to
\* the session's failed_attempts and reports MAX_FAILED_ATTEMPTS minus the
\* new value; from a counter of 0, 1, 2 the reported values are 2, 1, 0.
C4_AttemptCounting ==
    [][\A s \in Sessions, u \in Usernames, p \in Passwords :
        (LoginStep(s, u, p) /\ WrongPassword(s, u, p)) =>
            /\ failed_attempts'[s] = failed_attempts[s] + 1
            /\ \A t \in Sessions \ {s} : failed_attempts'[t] = failed_attempts[t]
            /\ out'.remaining = <<MAX_FAILED_ATTEMPTS - failed_attempts'[s]>>
            /\ failed_attempts[s] = 0 => out'.remaining = <<2>>
            /\ failed_attempts[s] = 1 => out'.remaining = <<1>>
            /\ failed_attempts[s] = 2 => out'.remaining = <<0>>]_vars

\* C4 witness: the third wrong password in a row was just reported as
\* 0 attempts left.
C4_Witness ==
    /\ out.op = "login" /\ out.msg = "Invalid credentials"
    /\ out.remaining = <<0>>
    /\ failed_attempts[out.session] = 3

\* C5: a Login/Register call with an empty username or an empty password
\* reports "Please fill all fields" and changes nothing else: failed_attempts,
\* the store, DATA_FILE, authorized and current_user keep their values; and
\* no store, in memory or on disk, ever holds an account named "".
C5_EmptyFieldsNoEffect ==
    [][/\ \A s \in Sessions, u \in Usernames, p \in Passwords :
            (LoginStep(s, u, p) /\ (u = "" \/ p = "")) =>
                /\ out'.msg = "Please fill all fields"
                /\ UNCHANGED <<file, data_store, failed_attempts,
                               authorized, current_user>>
       /\ \A s \in Sessions : "" \notin DOMAIN data_store'[s]
       /\ "" \notin DOMAIN load_data(file')]_vars

\* C5 witness: empty fields were just rejected in a session that has an
\* account and counted attempts to lose.
C5_Witness ==
    /\ out.op = "login" /\ out.msg = "Please fill all fields"
    /\ DOMAIN data_store[out.session] # {}
    /\ failed_attempts[out.session] > 0

\* C6: a Login/Register call with non-empty fields for a username absent
\* from the store adds exactly that account, with the salt generated by the
\* call, password_hash = derive_key(password, salt) and no entries; the store
\* is saved; the session is authorized as that username; every other account
\* and failed_attempts are unchanged.
C6_AccountCreation ==
    [][\A s \in Sessions, u \in Usernames \ {""}, p \in Passwords \ {""},
          r \in SaltBytes :
        (/\ out'.op = "login" /\ out'.session = s
         /\ u \notin DOMAIN data_store[s]
         /\ login_page(s, u, p, r)) =>
            /\ DOMAIN data_store'[s] = DOMAIN data_store[s] \cup {u}
            /\ data_store'[s][u].password_salt = urlsafe_b64encode(r)
            /\ data_store'[s][u].password_hash = derive_key(p, r)
            /\ data_store'[s][u].entries = <<>>
            /\ \A v \in DOMAIN data_store[s] : data_store'[s][v] = data_store[s][v]
            /\ \A t \in Sessions \ {s} : data_store'[t] = data_store[t]
            /\ file'.exists /\ file'.valid
            /\ load_data(file') = data_store'[s]
            /\ authorized'[s] /\ current_user'[s] = u
            /\ failed_attempts' = failed_attempts]_vars

\* C6 witness: a second account was just created in a session that had
\* counted a failed attempt.
C6_Witness ==
    /\ out.op = "login" /\ out.msg = "Account created! Logged in."
    /\ DOMAIN data_store[out.session] = {"alice", "bob"}
    /\ current_user[out.session] = "bob"
    /\ failed_attempts[out.session] > 0

Credentials(account) == <<account.password_salt, account.password_hash>>

\* Every account of users is an account of users2 with the same credentials.
KeepsCredentials(users, users2) ==
    \A u \in DOMAIN users :
        /\ u \in DOMAIN users2
        /\ Credentials(users2[u]) = Credentials(users[u])

IsPrefix(a, b) == Len(a) <= Len(b) /\ SubSeq(b, 1, Len(a)) = a

\* Every account of users is an account of users2 whose entries start with
\* the entries it has in users.
KeepsEntries(users, users2) ==
    \A u \in DOMAIN users :
        /\ u \in DOMAIN users2
        /\ IsPrefix(users[u].entries, users2[u].entries)

C9_AppendOnly ==
    [][\A s \in Sessions :
        /\ \A d \in Plaintexts, k \in Passkeys, r \in SaltBytes, iv \in FernetIVs :
              (/\ out'.op = "store" /\ out'.session = s
               /\ store_data_page(s, d, k, r, iv)) =>
                 IF d = "" \/ k = ""
                 THEN /\ data_store' = data_store
                      /\ file' = file
                      /\ out'.msg = "All fields required"
                 ELSE LET u == current_user[s]
                          e == [encrypted_data |->
                                    fernet_encrypt(derive_key(k, r), iv, d),
                                entry_salt |-> urlsafe_b64encode(r)]
                      IN  /\ DOMAIN data_store'[s] = DOMAIN data_store[s]
                          /\ data_store'[s][u].entries =
                                 Append(data_store[s][u].entries, e)
                          /\ Credentials(data_store'[s][u]) =
                                 Credentials(data_store[s][u])
                          /\ \A v \in DOMAIN data_store[s] \ {u} :
                                 data_store'[s][v] = data_store[s][v]
                          /\ \A t \in Sessions \ {s} :
                                 data_store'[t] = data_store[t]
        /\ KeepsEntries(data_store[s], data_store'[s])]_vars

\* C9 witness: a second entry was just appended for a user, beside another
\* account.
C9_Witness ==
    /\ out.op = "store" /\ out.msg = "Data encrypted and saved!"
    /\ DOMAIN data_store[out.session] = {"alice", "bob"}
    /\ Len(data_store[out.session][current_user[out.session]].entries) = 2

C11_NeverPartiallyUpdated ==
    [][(file' # file) =>
          /\ file'.exists /\ file'.valid
          /\ file'.doc = json_dump(data_store'[out'.session])]_vars

\* C12: whenever a session has just started, load_data raised nothing and
\* the session's store is the document of DATA_FILE if the file holds one,
\* and the empty store if the file is missing, unreadable or does not parse.
C12_LoadNeverRaises ==
    out.op = "start" =>
        /\ out.raised = <<>>
        /\ data_store[out.session] =
              IF file.exists /\ file.valid THEN json_load(file.doc) ELSE EmptyDict

\* C13: whenever save_data has just raised in Login / Register or in
\* Encrypt & Save, "Data encrypted and saved!" is not shown and the session
\* is not authorized for an account that DATA_FILE does not hold.
C13_SaveFailureNoSuccess ==
    out.raised = <<"OSError">> =>
        /\ out.msg # "Data encrypted and saved!"
        /\ authorized[out.session] =>
              (~load_data_raises(file) /\
               current_user[out.session] \in DOMAIN load_data(file))

\* A step that is a Decrypt click of session s with these inputs.
RetrieveStep(s, encrypted_input, passkey) ==
    /\ out'.op = "retrieve" /\ out'.session = s
    /\ retrieve_data_page(s, encrypted_input, passkey)

\* The entry Encrypt & Save stores for these inputs and random draws.
SealedEntry(data, passkey, entry_salt, iv) ==
    [encrypted_data |-> fernet_encrypt(derive_key(passkey, entry_salt), iv, data),
     entry_salt |-> urlsafe_b64encode(entry_salt)]

\* The entries of the current user of session s.
CurrentEntries(s) ==
    IF authorized[s] /\ current_user[s] \in DOMAIN data_store[s]
    THEN data_store[s][current_user[s]].entries
    ELSE <<>>

HasEntry(s, entry) ==
    \E i \in 1..Len(CurrentEntries(s)) : CurrentEntries(s)[i] = entry

\* The non-empty texts the Decrypt page is given.
LookupTexts == FernetTokens \cup TamperedTokens

HasCiphertext(s, text) ==
    \E i \in 1..Len(CurrentEntries(s)) : CurrentEntries(s)[i].encrypted_data = text

\* C14: when the current user has an entry that Encrypt & Save stored for a
\* non-empty plaintext and a non-empty passkey, Decrypt with that entry's
\* ciphertext and the same passkey reports success and shows exactly that
\* plaintext.
C14_RoundTrip ==
    [][\A s \in Sessions, d \in Plaintexts \ {""}, k \in Passkeys \ {""},
          r \in SaltBytes, iv \in FernetIVs :
        LET e == SealedEntry(d, k, r, iv)
        IN  \/ /\ out'.msg = "Decrypted successfully!"
               /\ out'.decrypted = <<d>>
            \/ ~(HasEntry(s, e) /\ RetrieveStep(s, e.encrypted_data, k))]_vars

\* C14 witness: a stored plaintext was just shown decrypted.
C14_Witness ==
    /\ out.op = "retrieve" /\ out.msg = "Decrypted successfully!"
    /\ out.decrypted = <<"hello">>
    /\ HasEntry(out.session, SealedEntry("hello", "k1", "r2", "iv1"))

\* C15: when the current user has an entry sealed with passkey p1, Decrypt
\* with that entry's ciphertext and any other non-empty passkey p2 reports
\* "Invalid passkey or corrupted data"; and with any other passkey field, the
\* empty one included, no plaintext is shown.
C15_WrongKeyRejected ==
    [][\A s \in Sessions, d \in Plaintexts \ {""}, p1 \in Passkeys \ {""},
          r \in SaltBytes, iv \in FernetIVs, p2 \in Passkeys :
        LET e == SealedEntry(d, p1, r, iv)
        IN  \/ /\ out'.decrypted = <<>>
               /\ out'.msg # "Decrypted successfully!"
               /\ p2 # "" => out'.msg = "Invalid passkey or corrupted data"
            \/ ~(p2 # p1 /\ HasEntry(s, e) /\ RetrieveStep(s, e.encrypted_data, p2))]_vars

\* C15 witness: a wrong passkey was just rejected for a stored entry.
C15_Witness ==
    /\ out.op = "retrieve" /\ out.msg = "Invalid passkey or corrupted data"
    /\ out.decrypted = <<>>
    /\ Len(CurrentEntries(out.session)) > 0

\* C16: Decrypt with non-empty fields reports "Data not found" exactly when
\* no entry of the current user has a ciphertext equal to the text supplied
\* (a text that differs in one character and the ciphertext of another
\* account's entry included); then no plaintext is shown, whatever the
\* passkey field holds.
C16_LookupByExactCiphertext ==
    [][out'.op = "retrieve" =>
        \A text \in LookupTexts :
            LET s == out'.session
                has == HasCiphertext(s, text)
            IN  /\ \/ has \/ out'.decrypted = <<>>
                   \/ \A k \in Passkeys : ~RetrieveStep(s, text, k)
                /\ \/ out'.msg = "Data not found" <=> ~has
                   \/ \A k \in Passkeys \ {""} : ~RetrieveStep(s, text, k)]_vars

\* C16 witness: "Data not found" was just reported to a user who has an
\* entry, while another account holds an entry with another ciphertext.
C16_Witness ==
    /\ out.op = "retrieve" /\ out.msg = "Data not found"
    /\ Len(CurrentEntries(out.session)) = 1
    /\ \E u \in DOMAIN data_store[out.session] :
          /\ u # current_user[out.session]
          /\ Len(data_store[out.session][u].entries) = 1
          /\ ~HasCiphertext(out.session,
                 data_store[out.session][u].entries[1].encrypted_data)

\* C17: in every state, a session is authorized exactly when its
\* current_user is a non-empty username that is a key of its store, and an
\* unauthorized session has an empty current_user; the dashboard, Encrypt &
\* Save and Decrypt have run only in authorized sessions; after Logout the
\* session is unauthorized with an empty current_user.
C17_AuthorizedIffCurrentUser ==
    /\ \A s \in Sessions :
          /\ authorized[s] <=>
                (current_user[s] # "" /\ current_user[s] \in DOMAIN data_store[s])
          /\ ~authorized[s] => current_user[s] = ""
    /\ out.op \in {"dashboard", "store", "retrieve"} => authorized[out.session]
    /\ out.op = "logout" =>
          (~authorized[out.session] /\ current_user[out.session] = "")

\* C17 witness: a session that logged out after it had stored an entry.
C17_Witness ==
    /\ out.op = "logout"
    /\ ~authorized[out.session]
    /\ \E u \in DOMAIN data_store[out.session] :
          Len(data_store[out.session][u].entries) > 0

====
